---- MODULE Spec2Model ----
(***************************************************************************)
(* Model of GcodeCANBus: the G-code to CAN converter (src/convert.py) and  *)
(* the CAN sender with its acknowledgement handshake (src/send.py).        *)
(*                                                                         *)
(* Spec      the sender: __main__ of send.py driving can_send_messages.    *)
(* ConvSpec  the converter: process_gcode_file of convert.py.              *)
(* EncSpec   the displacement digits of convert_to_can_message on their    *)
(*           own, over integers around the ends of the 24-bit ranges.      *)
(***************************************************************************)
EXTENDS Integers, Sequences, FiniteSets, TLC

VARIABLES
    \* ---- send.py ----
    pc,                  \* position of the sender: main, send, recv, confirm, done, crashed
    nlines,              \* len(lines): number of lines of the .can file
    pkt,                 \* index (from 1) of the message set being processed, 0 before the first
    k,                   \* index (from 1) of the next message of the set to pass to bus.send
    sent,                \* log of bus.send calls: <<packet, position>>, in call order
    state,               \* per packet: NOT_STARTED, SENDING, AWAITING_ACK, SATISFIED, TIMED_OUT
    received_responses,  \* the set received_responses of can_send_messages
    elapsed,             \* time.time() - start_time, in seconds, saturated above the timeout
    last_rx,             \* what the latest bus.recv returned: <<>> for None, <<frame>> otherwise
    lastStatus,          \* per arbitration id: status byte of the latest frame received from it
    nRx,                 \* number of frames received while awaiting this packet's acknowledgement
    lines,               \* the lines of the .can file, each a sequence of hex digits
    messages,            \* the messages of the current set, parsed and adjusted
    reference_speed,     \* reference_speed of the latest adjust_speeds_within_packet, 0 before
    wire,                \* the messages passed to bus.send, in call order
    \* ---- convert.py ----
    file,                \* the lines of the .gcode file, each a sequence of tokens
    speed,               \* the local speed of process_gcode_file
    input,               \* the lines of the .gcode file read so far, each a sequence of tokens
    output,              \* lines written to the .can file, each a sequence of hex digits
    src,                 \* per output line: the index of the input line that produced it
    initial_positions,   \* the module-level list initial_positions
    last_positions,      \* the module-level list last_positions, in 1/10000
    cpc,                 \* position of the converter: read, encode, done, failed
    axis,                \* axis_id of the loop over values[1:7], 0 outside the loop
    \* ---- convert.py, lines 76-80 on their own ----
    rel_position,        \* the integer rel_position of convert_to_can_message
    position_hex         \* the six digits made of it, <<>> before they are made

sendVars == <<pc, nlines, pkt, k, sent, state, received_responses, elapsed,
              last_rx, lastStatus, nRx, lines, messages, reference_speed, wire>>
convVars == <<file, speed, input, output, src, initial_positions, last_positions, cpc, axis>>
encVars == <<rel_position, position_hex>>
vars == <<pc, nlines, pkt, k, sent, state, received_responses, elapsed,
          last_rx, lastStatus, nRx, lines, messages, reference_speed, wire,
          file, speed, input, output, src, initial_positions, last_positions, cpc, axis,
          rel_position, position_hex>>

Min(a, b) == IF a <= b THEN a ELSE b

\* The option type: None is <<>>, a value m is <<m>>.
None == <<>>
Some(m) == <<m>>

(***************************************************************************)
(* Bounds of the model.                                                    *)
(***************************************************************************)
MaxLines == 8       \* longest .can file: a full packet and a short second one
MaxRx == 3          \* nRx counts received frames up to this value, then saturates
MaxInput == 2       \* longest .gcode file, in lines
MaxOffset == 4      \* rel_position is tried this far around each end of the 24-bit ranges

(***************************************************************************)
(* convert.py                                                              *)
(***************************************************************************)
\* gear_ratios, in 1/100: 13.5, 150, 150, 48, 67.82, 67.82
gear_ratios == <<1350, 15000, 15000, 4800, 6782, 6782>>
invert_direction == <<TRUE, TRUE, FALSE, FALSE, FALSE, FALSE>>
Axes == 1..6

\* An input line is a sequence of tokens:
\*   [kind |-> "G90"]            the text G90
\*   [kind |-> "F", val |-> v]   F followed by the digits of v
\*   [kind |-> "Fbad"]           F followed by no digit
\*   [kind |-> "num", val |-> n] an axis word (X10.0, Y-0.25, ...) of value n/100
\*   [kind |-> "huge"]           an axis word with a decimal point whose number
\*                               is beyond the range of a double (310 digits or
\*                               more before the point): float() gives inf
G90 == [kind |-> "G90", val |-> 90]
FTok(v) == [kind |-> "F", val |-> v]
FBad == [kind |-> "Fbad", val |-> 0]
Num(n) == [kind |-> "num", val |-> n]
Huge == [kind |-> "huge", val |-> 0]

\* Feed rates and targets (in 1/100) of the input lines. 1160.0 and -1160.0
\* leave the 24-bit range on axes 2 and 3. 65536 is the first feed rate
\* beyond 16 bits. On the targets 1.0 and -1.0 the double arithmetic of line
\* 76 is not exact on axes 5 and 6 (see RoundingError); on the other targets
\* it is exact on every axis.
FeedRates == {1000, 65535, 65536}
Targets == {-116000, -100, -25, 100, 1000, 116000}

Words(t, n) == [j \in 1..n |-> Num(t)]
\* G90 followed by six axis words, by six axis words and an F word, by five
\* axis words and an F word, and by an F word and six axis words
MotionLines ==
    {<<G90>> \o Words(t, 6) : t \in Targets}
    \cup {<<G90>> \o Words(1000, 6) \o <<FTok(v)>> : v \in FeedRates}
    \cup {<<G90, Num(-1000), Num(25), Num(1000), Num(-25), Num(100000), Num(116000)>>,
          <<G90>> \o Words(1000, 5) \o <<FTok(1000)>>,
          <<G90, FTok(1000), Num(25), Num(1000), Num(-25), Num(100000), Num(116000),
            Num(-1000)>>}
OtherLines ==
    {<<FTok(1000)>>, <<FTok(65535)>>, <<FBad>>, <<FTok(1000), FTok(2000)>>,
     <<G90>> \o Words(1000, 5), Words(1000, 7), <<>>}
\* G90 lines with six axis words, one of which is beyond the range of a double
OverflowLines ==
    {<<G90, Huge>> \o Words(100, 5), <<G90, Num(100), Huge>> \o Words(100, 4)}
Lines == MotionLines \cup OtherLines \cup OverflowLines

\* line 113: re.search(r"F(\d+)", line): the leftmost match, <<>> for no match
IsF(tok) == tok.kind = "F"
speed_match(line) ==
    IF SelectSeq(line, IsF) = <<>> THEN None ELSE Some(Head(SelectSeq(line, IsF)).val)

\* lines 114-118: speed = int(speed_match.group(1))
NewSpeed(old, line) == IF speed_match(line) # None THEN speed_match(line)[1] ELSE old

\* line 120: line.startswith("G90")
StartsWithG90(line) == line # <<>> /\ line[1].kind = "G90"

\* lines 121-124: the numbers re.findall finds, in 1/100: the 90 of G90, the
\* digits of an F token and the value of an axis word
\* line 122: float(value) of a number beyond the range of a double is inf;
\* it is kept apart from the finite values as the largest integer
Infinity == 2147483647
HasNumber(tok) == tok.kind \in {"G90", "F", "num", "huge"}
NumberOf(tok) ==
    IF tok.kind = "num" THEN tok.val
    ELSE IF tok.kind = "huge" THEN Infinity
    ELSE tok.val * 100
values(line) ==
    [j \in 1..Len(SelectSeq(line, HasNumber)) |-> NumberOf(SelectSeq(line, HasNumber)[j])]

\* int(x): truncation toward zero of num / den, den > 0
Trunc(num, den) == IF num >= 0 THEN num \div den ELSE -((-num) \div den)

\* format(x, "0<w>X"): the hexadecimal digits of x >= 0, most significant
\* first, padded with zeros to at least w digits
RECURSIVE HexDigits(_)
HexDigits(x) == IF x < 16 THEN <<x>> ELSE HexDigits(x \div 16) \o <<x % 16>>
FormatHex(x, w) ==
    [j \in 1..(w - Min(w, Len(HexDigits(x)))) |-> 0] \o HexDigits(x)

\* line 76 is evaluated in double arithmetic. 13.5, 150 and 48 are doubles
\* and their products with the targets above are exact. 67.82 is not: the
\* double nearest to it lies below it, and (1.0 * 67.82) * 100 evaluates to
\* 6781.999999999999 where the exact product is 6782. RoundingError is the
\* amount, rounded up to 1/100, by which the double product falls short of
\* the exact one when that changes its integer part.
RoundingError(axis_id, position) ==
    IF gear_ratios[axis_id] = 6782 /\ position = 100 THEN 1
    ELSE IF gear_ratios[axis_id] = 6782 /\ position = -100 THEN -1
    ELSE 0

\* line 76: (position * gear_ratio - initial_positions[axis_id - 1]) * 100 as
\* a multiple of 1/100; position and initial position in 1/100, gear ratio
\* in 1/100
ScaledPosition(axis_id, position, initial) ==
    position * gear_ratios[axis_id] - initial * 100 - RoundingError(axis_id, position)

\* the same with math.floor in the place of int
RelPositionFloor(axis_id, position, initial) ==
    ScaledPosition(axis_id, position, initial) \div 100

\* line 76: rel_position = int(...)
RelPosition(axis_id, position, initial) ==
    Trunc(ScaledPosition(axis_id, position, initial), 100)

\* line 79, the same with the mask 0x7FFFFF
Mask23(x) == x % 8388608

\* line 79: rel_position & 0xFFFFFF
Mask24(x) == x % 16777216

\* lines 79-80: format(rel_position & 0xFFFFFF, "06X")
PositionHex(rel) == FormatHex(Mask24(rel), 6)

\* lines 72-80, the same negating the displacement of an inverted axis
ConvertInverting(axis_id, spd, position, initial, invert_dir) ==
    FormatHex(axis_id, 2) \o <<15, 5>> \o FormatHex(spd, 4) \o <<0, 2>>
        \o PositionHex(IF invert_dir THEN -RelPosition(axis_id, position, initial)
                                     ELSE RelPosition(axis_id, position, initial))

\* lines 50-84: convert_to_can_message without its update of last_positions;
\* the parameter invert_dir is used nowhere in its body
convert_to_can_message(axis_id, spd, position, initial, invert_dir) ==
    FormatHex(axis_id, 2) \o <<15, 5>> \o FormatHex(spd, 4) \o <<0, 2>>
        \o PositionHex(RelPosition(axis_id, position, initial))

\* lines 135-138: [int(can_message[i : i + 2], 16) for i in range(0, len(can_message), 2)]
ByteAt(msg, j) ==
    IF 2 * j <= Len(msg) THEN 16 * msg[2 * j - 1] + msg[2 * j] ELSE msg[2 * j - 1]
ByteList(msg) == [j \in 1..((Len(msg) + 1) \div 2) |-> ByteAt(msg, j)]

RECURSIVE Sum(_)
Sum(q) == IF q = <<>> THEN 0 ELSE Head(q) + Sum(Tail(q))

\* int(q, 16): the value of a sequence of hexadecimal digits
HexValue(q) == Sum([j \in 1..Len(q) |-> q[j] * (16 ^ (Len(q) - j))])

\* lines 36-47: calculate_crc
calculate_crc(data) == Sum(data) % 256

\* lines 131-141: one line of the .can file
CanLine(axis_id, spd, position, initial, invert_dir) ==
    convert_to_can_message(axis_id, spd, position, initial, invert_dir)
        \o FormatHex(calculate_crc(ByteList(
               convert_to_can_message(axis_id, spd, position, initial, invert_dir))), 2)

(***************************************************************************)
(* Program constants of send.py.                                           *)
(***************************************************************************)
SetSize == 6        \* lines per message set
RecvTimeout == 3    \* --timeout default, seconds

expected_responses == {1, 2}

\* The frames the bus can deliver. data[2] is Python's data[1], the status byte;
\* <<245>> is a frame whose payload has a single byte.
\* Ids: the two expected motors and one other node. Status bytes: the two
\* recognized values and one unrecognized value.
Ids == expected_responses \cup {3}
Statuses == {0} \cup expected_responses
Payloads == {<<245>>} \cup {<<245, s>> : s \in Statuses}
Frames == [arbitration_id : Ids, data : Payloads]

\* message_sets = [lines[i : i + 6] for i in range(0, len(lines), 6)]
NumSets(n) == (n + SetSize - 1) \div SetSize
SetLen(n, p) == Min(SetSize, n - (p - 1) * SetSize)

\* what bus.recv can return
RecvResults == {None} \cup {Some(m) : m \in Frames}

\* What one bus.recv(timeout=recv_timeout) call can take, in seconds: a frame
\* arrives within the timeout; None is returned once the timeout has passed
\* (a coarse clock may still show exactly the timeout).
RecvDelays(r) == IF r = None THEN RecvTimeout..(RecvTimeout + 1) ELSE 0..RecvTimeout

\* The clock readings that matter are those up to just above the timeout.
Advance(el, d) == Min(el + d, RecvTimeout + 1)

\* received_msg.data[1] raises IndexError on a payload shorter than 2 bytes.
IndexError(r) == r # None /\ Len(r[1].data) < 2

\* line 100: received_msg.data[1] in expected_responses
Responded(m) == m.data[2] \in expected_responses

\* lines 93-101: the update of received_responses by what bus.recv returned
AddResponse(rr, r) ==
    IF r # None /\ Responded(r[1]) THEN rr \cup {r[1].arbitration_id} ELSE rr

\* line 102: received_responses == expected_responses
AllResponded(rr) == rr = expected_responses

\* lines 103-106: all(m.data[1] == 2 if m is not None else False
\*                    for m in [bus.recv(...)] * len(expected_responses))
\* One bus.recv call: the list holds the same object twice.
StatusTwo(r) == r # None /\ r[1].data[2] = 2

\* line 111, the same with >= in the place of >
TimedOutAtLimit(el) == el >= RecvTimeout

\* line 111: time.time() - start_time > timeout
TimedOut(el) == el > RecvTimeout

\* lines 102-113: how an iteration of the while loop ends
LoopExit(satisfied, el) ==
    IF satisfied THEN "SATISFIED"
    ELSE IF TimedOut(el) THEN "TIMED_OUT"
    ELSE "AWAITING_ACK"

\* break leaves can_send_messages and returns to the for loop of __main__;
\* otherwise the while loop goes round again
PcAfterBreakAlways(outcome) == "main"
PcAfter(outcome) == IF outcome = "AWAITING_ACK" THEN "recv" ELSE "main"

\* history of the frames received for the current packet
NoteRx(ls, r) ==
    IF r = None THEN ls
    ELSE [ls EXCEPT ![r[1].arbitration_id] = Some(r[1].data[2])]
CountRx(n, r) == IF r = None THEN n ELSE Min(n + 1, MaxRx)

\* line 27: range(2, len(parts[0]), 2): the digits after the first two
DataDigits(line) == SubSeq(line, 3, Len(line))

\* lines 25-30: parse_can_message of a line without spaces; data[j] here is
\* Python's data[j - 1]
parse_can_message(line) ==
    [arbitration_id |-> HexValue(SubSeq(line, 1, 2)),
     data |-> ByteList(DataDigits(line))]

\* lines 58 and 63: (msg.data[3] << 8) + msg.data[4]
SpeedRead(msg) == msg.data[4] * 256 + msg.data[5]

\* line 59: sum(speeds) // len(speeds)
ReferenceSpeed(msgs) ==
    Sum([j \in 1..Len(msgs) |-> SpeedRead(msgs[j])]) \div Len(msgs)

\* line 64 is evaluated in double arithmetic: the quotient speed /
\* reference_speed is rounded, and its product with reference_speed can fall
\* below speed, so that int gives speed - 1. Of the pairs that occur in the
\* files of the model this happens for speed 632 and reference_speed 572.
FloatLoss(spd, ref) == IF spd = 632 /\ ref = 572 THEN 1 ELSE 0

\* line 64: int((speed / reference_speed) * reference_speed)
AdjustedSpeed(spd, ref) == spd - FloatLoss(spd, ref)

\* lines 63-66: the two bytes written into one message
AdjustMessage(msg, ref) ==
    [msg EXCEPT !.data[4] = (AdjustedSpeed(SpeedRead(msg), ref) \div 256) % 256,
                !.data[5] = AdjustedSpeed(SpeedRead(msg), ref) % 256]

\* lines 58-66: adjust_speeds_within_packet, as the list it leaves behind
adjust_speeds_within_packet(msgs) ==
    IF ReferenceSpeed(msgs) = 0 THEN msgs
    ELSE [j \in 1..Len(msgs) |-> AdjustMessage(msgs[j], ReferenceSpeed(msgs))]

\* line 163: the p-th message set, lines[i : i + 6] with i = 6 * (p - 1)
MessageSet(ls, p) ==
    SubSeq(ls, (p - 1) * SetSize + 1, Min(Len(ls), p * SetSize))

\* line 166: [parse_can_message(line.strip()) for line in message]
ParsedSet(ls, p) ==
    [j \in 1..Len(MessageSet(ls, p)) |-> parse_can_message(MessageSet(ls, p)[j])]

\* The .can files of the model: the first lines of the file convert.py
\* writes for the targets 1160.0 and then 10.0 (on all axes, feed rate 1000).
Packet(spd, t) == [a \in Axes |-> CanLine(a, spd, t, 0, invert_direction[a])]
CanFiles == {Packet(1000, 116000) \o Packet(1000, 1000)}

InitSend ==
    /\ nlines \in 0..MaxLines
    /\ \E f \in CanFiles : lines = SubSeq(f, 1, nlines)
    /\ messages = <<>>
    /\ reference_speed = 0
    /\ wire = <<>>
    /\ pc = "main"
    /\ pkt = 0
    /\ k = 1
    /\ sent = <<>>
    /\ state = [p \in 1..NumSets(nlines) |-> "NOT_STARTED"]
    /\ received_responses = {}
    /\ elapsed = 0
    /\ last_rx = None
    /\ lastStatus = [i \in Ids |-> None]
    /\ nRx = 0

\* for message in message_sets: the next index of the iteration
NextIndexRetry(p) == IF p >= 1 /\ state[p] = "TIMED_OUT" THEN p ELSE p + 1
NextIndex(p) == p + 1

\* lines 165-168 and 81-82: the for loop takes the next message set, parses it
\* and enters can_send_messages
NextPacket ==
    /\ pc = "main"
    /\ pkt < NumSets(nlines)
    /\ pkt' = NextIndex(pkt)
    /\ k' = 1
    /\ pc' = "send"
    /\ state' = [state EXCEPT ![pkt'] = "SENDING"]
    /\ received_responses' = {}
    /\ last_rx' = None
    /\ lastStatus' = [i \in Ids |-> None]
    /\ nRx' = 0
    /\ messages' = adjust_speeds_within_packet(ParsedSet(lines, pkt'))
    /\ reference_speed' = ReferenceSpeed(ParsedSet(lines, pkt'))
    /\ UNCHANGED <<nlines, sent, elapsed, lines, wire>>

\* line 165: message_sets is exhausted
Finish ==
    /\ pc = "main"
    /\ pkt >= NumSets(nlines)
    /\ pc' = "done"
    /\ UNCHANGED <<nlines, pkt, k, sent, state, received_responses, elapsed,
                   last_rx, lastStatus, nRx, lines, messages, reference_speed, wire>>

\* lines 83-90: bus.send(msg) for the next message; after the last one
\* start_time = time.time()
SendFrame ==
    /\ pc = "send"
    /\ sent' = Append(sent, <<pkt, k>>)
    /\ wire' = Append(wire, messages[k])
    /\ IF k < SetLen(nlines, pkt)
         THEN /\ k' = k + 1
              /\ UNCHANGED <<pc, state, elapsed>>
         ELSE /\ pc' = "recv"
              /\ state' = [state EXCEPT ![pkt] = "AWAITING_ACK"]
              /\ elapsed' = 0
              /\ UNCHANGED k
    /\ UNCHANGED <<nlines, pkt, received_responses, last_rx, lastStatus, nRx,
                   lines, messages, reference_speed>>

\* lines 92-102 and, when not all expected ids have responded, 111-113
Recv ==
    /\ pc = "recv"
    /\ \E r \in RecvResults : \E d \in RecvDelays(r) :
        /\ last_rx' = r
        /\ elapsed' = Advance(elapsed, d)
        /\ nRx' = CountRx(nRx, r)
        /\ IF IndexError(r)
             THEN /\ pc' = "crashed"
                  /\ UNCHANGED <<state, received_responses, lastStatus>>
             ELSE /\ received_responses' = AddResponse(received_responses, r)
                  /\ lastStatus' = NoteRx(lastStatus, r)
                  /\ IF AllResponded(received_responses')
                       THEN /\ pc' = "confirm"
                            /\ UNCHANGED state
                       ELSE /\ state' = [state EXCEPT ![pkt] = LoopExit(FALSE, elapsed')]
                            /\ pc' = PcAfter(state'[pkt])
    /\ UNCHANGED <<nlines, pkt, k, sent, lines, messages, reference_speed, wire>>

\* lines 103-113: the second bus.recv of the iteration and the end of the iteration
Confirm ==
    /\ pc = "confirm"
    /\ \E r \in RecvResults : \E d \in RecvDelays(r) :
        /\ last_rx' = r
        /\ elapsed' = Advance(elapsed, d)
        /\ nRx' = CountRx(nRx, r)
        /\ IF IndexError(r)
             THEN /\ pc' = "crashed"
                  /\ UNCHANGED <<state, lastStatus>>
             ELSE /\ lastStatus' = NoteRx(lastStatus, r)
                  /\ state' = [state EXCEPT ![pkt] = LoopExit(StatusTwo(r), elapsed')]
                  /\ pc' = PcAfter(state'[pkt])
    /\ UNCHANGED <<nlines, pkt, k, sent, received_responses,
                   lines, messages, reference_speed, wire>>

InitConvIdle ==
    /\ file = <<>>
    /\ speed = 0
    /\ input = <<>>
    /\ output = <<>>
    /\ src = <<>>
    /\ initial_positions = [a \in 1..6 |-> 0]
    /\ last_positions = [a \in 1..6 |-> 0]
    /\ cpc = "done"
    /\ axis = 0

InitEncIdle == rel_position = 0 /\ position_hex = <<>>

Init == InitSend /\ InitConvIdle /\ InitEncIdle

Next ==
    \/ NextPacket /\ UNCHANGED <<convVars, encVars>>
    \/ Finish /\ UNCHANGED <<convVars, encVars>>
    \/ SendFrame /\ UNCHANGED <<convVars, encVars>>
    \/ Recv /\ UNCHANGED <<convVars, encVars>>
    \/ Confirm /\ UNCHANGED <<convVars, encVars>>

Spec == Init /\ [][Next]_vars

InitSendIdle ==
    /\ nlines = 0
    /\ pc = "done"
    /\ pkt = 0
    /\ k = 1
    /\ sent = <<>>
    /\ state = <<>>
    /\ received_responses = {}
    /\ elapsed = 0
    /\ last_rx = None
    /\ lastStatus = [i \in Ids |-> None]
    /\ nRx = 0
    /\ lines = <<>>
    /\ messages = <<>>
    /\ reference_speed = 0
    /\ wire = <<>>

\* The .gcode files of the model: up to MaxInput lines
GcodeFiles == UNION {[1..n -> Lines] : n \in 0..MaxInput}

InitConv ==
    /\ file \in GcodeFiles
    /\ speed = 0
    /\ input = <<>>
    /\ output = <<>>
    /\ src = <<>>
    /\ initial_positions = [a \in Axes |-> 0]
    /\ last_positions = [a \in Axes |-> 0]
    /\ cpc = "read"
    /\ axis = 0

\* line 127: values[1:7], used when len(values) >= 7
Slice(line) == SubSeq(values(line), 2, 7)

\* lines 120 and 126: the line is converted
IsMotion(line) == StartsWithG90(line) /\ Len(values(line)) >= 7

\* line 82, the same writing the entry of the next axis
StoreLastNext(lp, axis_id, position) ==
    [lp EXCEPT ![(axis_id % 6) + 1] = position * gear_ratios[axis_id]]

\* line 82: last_positions[axis_id - 1] = position * gear_ratio, in 1/10000
StoreLast(lp, axis_id, position) ==
    [lp EXCEPT ![axis_id] = position * gear_ratios[axis_id]]

\* line 76: initial_positions[axis_id - 1]
Origin(axis_id) == initial_positions[axis_id]

\* lines 112-126: one iteration of `for line in input_file` up to the loop
\* over values[1:7]
ReadLine ==
    /\ cpc = "read"
    /\ Len(input) < Len(file)
    /\ input' = Append(input, file[Len(input) + 1])
    /\ speed' = NewSpeed(speed, file[Len(input) + 1])
    /\ IF IsMotion(file[Len(input) + 1])
         THEN cpc' = "encode" /\ axis' = 1
         ELSE UNCHANGED <<cpc, axis>>
    /\ UNCHANGED <<file, output, src, initial_positions, last_positions>>

\* line 76: int() of an infinite double raises OverflowError
OverflowError(position) == position = Infinity

\* lines 127-141: one iteration of the loop over values[1:7]: the call of
\* convert_to_can_message, its update of last_positions, the checksum and
\* the write of the line. An OverflowError raised at line 76 is caught at
\* line 144: process_gcode_file reports it and returns, and the .can file
\* keeps the lines written so far.
EncodeAxis ==
    /\ cpc = "encode"
    /\ IF OverflowError(Slice(input[Len(input)])[axis])
         THEN /\ cpc' = "failed"
              /\ UNCHANGED <<output, src, last_positions, axis>>
         ELSE /\ output' = Append(output,
                                  CanLine(axis, speed, Slice(input[Len(input)])[axis],
                                          Origin(axis), invert_direction[axis]))
              /\ src' = Append(src, Len(input))
              /\ last_positions' = StoreLast(last_positions, axis,
                                             Slice(input[Len(input)])[axis])
              /\ IF axis < Len(Slice(input[Len(input)]))
                   THEN axis' = axis + 1 /\ cpc' = cpc
                   ELSE axis' = 0 /\ cpc' = "read"
    /\ UNCHANGED <<file, speed, input, initial_positions>>

\* line 143: the input file is exhausted
EndOfFile ==
    /\ cpc = "read"
    /\ Len(input) = Len(file)
    /\ cpc' = "done"
    /\ UNCHANGED <<file, speed, input, output, src, initial_positions, last_positions, axis>>

ConvInit == InitConv /\ InitSendIdle /\ InitEncIdle

ConvNext ==
    \/ ReadLine /\ UNCHANGED <<sendVars, encVars>>
    \/ EncodeAxis /\ UNCHANGED <<sendVars, encVars>>
    \/ EndOfFile /\ UNCHANGED <<sendVars, encVars>>

ConvSpec == ConvInit /\ [][ConvNext]_vars

\* The values of rel_position tried: within MaxOffset of 0, of the two ends
\* of the signed 24-bit range and of the multiples of 2^24 next to them.
RelValues ==
    UNION {(c - MaxOffset)..(c + MaxOffset) :
              c \in {-(2^24), -(2^23), 0, 2^23, 2^24, 2^24 + 2^23}}

EncInit ==
    /\ InitSendIdle
    /\ InitConvIdle
    /\ rel_position \in RelValues
    /\ position_hex = <<>>

\* lines 79-80: the displacement digits of convert_to_can_message
EncodePosition ==
    /\ position_hex = <<>>
    /\ position_hex' = PositionHex(rel_position)
    /\ UNCHANGED <<rel_position, sendVars, convVars>>

EncNext == EncodePosition

EncSpec == EncInit /\ [][EncNext]_vars

(***************************************************************************)
(* Claims about the handshake of can_send_messages, checked under Spec.    *)
(***************************************************************************)
Resolved == {"SATISFIED", "TIMED_OUT"}
Started == pkt \in DOMAIN state

\* C1: the handshake of the current packet is SATISFIED only if ids 1 and 2
\* have both responded and the status byte of the latest frame received from
\* each of them is 2.
C1_SatisfiedOnlyOnStatusTwo ==
    (Started /\ state[pkt] = "SATISFIED") =>
        /\ expected_responses \subseteq received_responses
        /\ \A i \in expected_responses : lastStatus[i] = Some(2)

\* Exactly two frames have been received, one of id 1 and one of id 2, both
\* with status 2.
OnlyBothStatusTwo ==
    /\ nRx = 2
    /\ \A i \in expected_responses : lastStatus[i] = Some(2)
    /\ \A i \in Ids \ expected_responses : lastStatus[i] = None

\* C2: once a frame of id 1 with status 2 and a frame of id 2 with status 2
\* have arrived within the timeout, as the only two frames received, and the
\* bus delivers nothing more, the packet is not reported as timed out.
C2_BothStatusTwoSatisfies ==
    [][(/\ pc = "confirm"
        /\ last_rx # None
        /\ elapsed <= RecvTimeout
        /\ OnlyBothStatusTwo
        /\ last_rx' = None) => state'[pkt] # "TIMED_OUT"]_vars

\* A frame with a status byte whose id is not 1 or 2, or whose status byte is
\* not 1 or 2.
Irrelevant(m) ==
    /\ Len(m.data) >= 2
    /\ \/ m.arbitration_id \notin expected_responses
       \/ m.data[2] \notin {1, 2}

\* C3: a received frame whose id is not 1 or 2, or whose status byte is not 1
\* or 2, is ignored: receiving it neither changes the set of ids recorded as
\* responded nor makes the packet SATISFIED.
C3_IrrelevantFrameIgnored ==
    [][(/\ pc \in {"recv", "confirm"}
        /\ last_rx' # None
        /\ Irrelevant(last_rx'[1]))
       => (/\ received_responses' = received_responses
           /\ state'[pkt] # "SATISFIED")]_vars

\* C4: packet barrier: whenever a frame of packet N+1 has been passed to
\* bus.send, packet N is SATISFIED or TIMED_OUT; the sends are ordered by
\* packet; at most one packet is being sent or awaiting acknowledgement.
C4_PacketBarrier ==
    /\ \A i \in 1..Len(sent) : \A q \in 1..(sent[i][1] - 1) : state[q] \in Resolved
    /\ \A i \in 1..Len(sent) : \A j \in i..Len(sent) : sent[i][1] <= sent[j][1]
    /\ Cardinality({p \in DOMAIN state : state[p] \in {"SENDING", "AWAITING_ACK"}}) <= 1
C4_Witness ==
    /\ \E i \in 1..Len(sent) : sent[i][1] = 2
    /\ state[1] \in Resolved

\* C5: while one of the ids 1 and 2 has delivered no frame with status 1 or
\* 2, the packet is not SATISFIED, and when can_send_messages is left the
\* packet is TIMED_OUT.
C5_MissingIdTimesOut ==
    (Started /\ ~(expected_responses \subseteq received_responses)) =>
        /\ state[pkt] # "SATISFIED"
        /\ pc \in {"main", "done", "crashed"} => state[pkt] = "TIMED_OUT"

\* The i-th line of the file: its packet and its position in the packet.
FileFrame(i) == <<((i - 1) \div SetSize) + 1, ((i - 1) % SetSize) + 1>>

\* C6: no retry and no stop on a timeout: the frames passed to bus.send are
\* the lines of the file, each once and in file order; when the sender is
\* done every line has been sent; a timeout returns control to the loop over
\* the message sets, which ends only after the last set.
C6_TimeoutNotFatalNoRetry ==
    /\ \A i \in 1..Len(sent) : sent[i] = FileFrame(i)
    /\ pc = "done" => Len(sent) = nlines
    /\ (Started /\ state[pkt] = "TIMED_OUT") =>
           /\ pc \in {"main", "done"}
           /\ pc = "done" => pkt = NumSets(nlines)
C6_Witness ==
    /\ pc = "done"
    /\ nlines > SetSize
    /\ state[1] = "TIMED_OUT"
    /\ Len(sent) = nlines

\* C7: the sender never stops before it is done, and when it is done every
\* packet of the file is SATISFIED or TIMED_OUT.
C7_EveryPacketResolves ==
    \/ pc = "done" /\ \A p \in DOMAIN state : state[p] \in Resolved
    \/ ENABLED Next

\* C18: a packet becomes TIMED_OUT only in an iteration of the wait loop at
\* whose end the time elapsed since the start of AWAITING_ACK is strictly
\* above the timeout, and not in an iteration in which the confirming
\* bus.recv returned a frame with status 2; the elapsed time is 0 when the
\* last frame of the packet has been sent and never decreases while frames
\* are received.
C18_TimedOutOnlyPastTimeout ==
    [][/\ (pc = "send" /\ pc' = "recv") => elapsed' = 0
       /\ pc \in {"recv", "confirm"} =>
            /\ elapsed' >= elapsed
            /\ state'[pkt] = "TIMED_OUT" =>
                  /\ elapsed' > RecvTimeout
                  /\ ~(pc = "confirm" /\ ~IndexError(last_rx') /\ StatusTwo(last_rx'))]_vars
C18_Witness ==
    /\ Started
    /\ state[pkt] = "TIMED_OUT"
    /\ elapsed = RecvTimeout + 1
    /\ last_rx # None
    /\ nRx >= 2

\* The speed field SSSS and the six displacement digits of a line of the
\* .can file.
SpeedField(l) == HexValue(SubSeq(l, 5, 8))
DisplacementField(l) == SubSeq(l, Len(l) - 7, Len(l) - 2)

\* C14: the reference speed adjust_speeds_within_packet computes for a set of
\* 6 lines is the floor of the mean of the six speed fields SSSS of the
\* lines (so it is F when all six carry the feed rate F).
C14_ReferenceSpeedFromSpeedField ==
    (Started /\ Len(MessageSet(lines, pkt)) = SetSize) =>
        reference_speed
            = Sum([j \in 1..SetSize |-> SpeedField(MessageSet(lines, pkt)[j])]) \div SetSize

\* C15: adjust_speeds_within_packet changes no byte other than the two speed
\* bytes (data[1] and data[2] of the parsed message): opcode, subcommand,
\* displacement and checksum of every message of the set are those of its
\* line, and the displacement of every message passed to bus.send is the
\* displacement of the line of the file it was parsed from.
C15_AdjustWritesOnlySpeedBytes ==
    /\ Started =>
          \A j \in 1..Len(messages) : \A b \in 1..Len(messages[j].data) :
              b \notin {2, 3} =>
                  messages[j].data[b] = parse_can_message(MessageSet(lines, pkt)[j]).data[b]
    /\ \A i \in 1..Len(wire) :
          SubSeq(wire[i].data, 5, 7) = ByteList(DisplacementField(lines[i]))

(***************************************************************************)
(* Claims about the converter, checked under ConvSpec.                     *)
(***************************************************************************)

\* 18 hexadecimal digits laid out as AA F5 SSSS 02 PPPPPP CC, AA in 01..06
WellFormedLine(l) ==
    /\ Len(l) = 18
    /\ \A j \in 1..Len(l) : l[j] \in 0..15
    /\ l[1] = 0 /\ l[2] \in Axes
    /\ l[3] = 15 /\ l[4] = 5
    /\ l[9] = 0 /\ l[10] = 2

\* C8: every line of the .can file is 18 hexadecimal digits (9 bytes) laid out
\* as AA F5 SSSS 02 PPPPPP CC, with AA the axis id.
C8_EveryLineNineBytes == \A i \in 1..Len(output) : WellFormedLine(output[i])

\* C9: the last byte of every line of the .can file is the sum of the line's
\* first 8 bytes modulo 256.
C9_ChecksumIsSumOfFirstEight ==
    \A i \in 1..Len(output) :
        HexValue(SubSeq(output[i], Len(output[i]) - 1, Len(output[i])))
            = calculate_crc(ByteList(SubSeq(output[i], 1, 16)))

\* The feed rate carried forward to input line n: the integer of the F token
\* found on the latest of the lines 1..n that holds one, 0 when none does.
RECURSIVE CarriedFeed(_)
CarriedFeed(n) ==
    IF n = 0 THEN 0
    ELSE IF \E j \in 1..Len(input[n]) : input[n][j].kind = "F"
         THEN input[n][CHOOSE j \in 1..Len(input[n]) :
                          /\ input[n][j].kind = "F"
                          /\ \A h \in 1..(j - 1) : input[n][h].kind # "F"].val
         ELSE CarriedFeed(n - 1)

\* C10: the speed field (hexadecimal digits 5 to 8) of every line of the .can
\* file is the feed rate carried forward to the input line that produced it.
C10_SpeedFieldIsCarriedFeed ==
    \A i \in 1..Len(output) :
        HexValue(SubSeq(output[i], 5, 8)) = CarriedFeed(src[i])

\* The output lines produced by input line n, and whether the converter has
\* finished with input line n.
LinesFrom(n) == {i \in 1..Len(output) : src[i] = n}
Completed(n) == n < Len(input) \/ cpc # "encode"

\* The axis-id byte of a line of the .can file.
AxisByte(l) == HexValue(SubSeq(l, 1, 2))
\* The six digits that encode the target t (in 1/100) on axis a.
TargetDigits(a, t) == FormatHex(Mask24(RelPosition(a, t, 0)), 6)

\* C11: an input line produces output exactly when it starts with G90 and
\* holds at least 7 numeric tokens; it then produces 6 consecutive lines
\* whose axis-id bytes are 1..6 in this order, the line of axis a encoding
\* numeric token a + 1 of the input line; every other line produces nothing.
C11_MotionLineGivesSixFrames ==
    \A n \in 1..Len(input) : Completed(n) =>
        IF StartsWithG90(input[n]) /\ Len(values(input[n])) >= 7
        THEN \E first \in 1..Len(output) :
                /\ LinesFrom(n) = first..(first + 5)
                /\ \A a \in 1..6 :
                      /\ AxisByte(output[first + a - 1]) = a
                      /\ DisplacementField(output[first + a - 1])
                            = TargetDigits(a, values(input[n])[a + 1])
        ELSE LinesFrom(n) = {}
\* The digits read as a signed 24-bit two's-complement integer.
SignedDecode(q) == IF HexValue(q) >= 2^23 THEN HexValue(q) - 2^24 ELSE HexValue(q)

\* The axis of output line i and the target (in 1/100) it encodes: the
\* lines of one input line are written for the axes 1, 2, ... in this order.
AxisOf(i) == Cardinality({j \in 1..i : src[j] = src[i]})
TargetOf(i) == values(input[src[i]])[AxisOf(i) + 1]

\* x / 100 truncated toward zero, x an integer.
TowardZero(x) == IF x >= 0 THEN x \div 100 ELSE -((-x) \div 100)

\* C13: the displacement digits of every output line are the value
\* (target * gear ratio - initial position) * 100 of its axis and target,
\* truncated toward zero, modulo 2^24; the line of axis 1 for the target 10.0
\* at feed rate 1000 is 01F503E8020034BCD3, whose displacement is 13500.
C13_DisplacementTruncatesTowardZero ==
    \A i \in 1..Len(output) :
        /\ HexValue(DisplacementField(output[i]))
              = TowardZero(ScaledPosition(AxisOf(i), TargetOf(i),
                                          initial_positions[AxisOf(i)])) % (2^24)
        /\ (AxisOf(i) = 1 /\ TargetOf(i) = 1000 /\ CarriedFeed(src[i]) = 1000) =>
              /\ output[i] = <<0, 1, 15, 5, 0, 3, 14, 8, 0, 2, 0, 0, 3, 4, 11, 12, 13, 3>>
              /\ HexValue(DisplacementField(output[i])) = 13500
C13_Witness ==
    /\ \E i \in 1..Len(output) :
          AxisOf(i) = 1 /\ TargetOf(i) = 1000 /\ CarriedFeed(src[i]) = 1000
    /\ \E i \in 1..Len(output) :
          /\ AxisOf(i) = 1 /\ TargetOf(i) = -25
          /\ SignedDecode(DisplacementField(output[i])) = -337

\* C16: a step that encodes the line of axis a for the target t sets
\* last_positions[a] to t * gear_ratios[a] and leaves the entry of every
\* other axis as it was; no other step changes last_positions (a step in
\* which the encoding fails included); every entry of initial_positions is
\* 0 after every step.
C16_EncodeUpdatesOnlyItsAxis ==
    [][/\ (cpc = "encode" /\ cpc' # "failed") =>
            /\ last_positions'[axis]
                  = values(input[Len(input)])[axis + 1] * gear_ratios[axis]
            /\ \A b \in Axes \ {axis} : last_positions'[b] = last_positions[b]
       /\ (cpc # "encode" \/ cpc' = "failed") => last_positions' = last_positions
       /\ \A a \in Axes : initial_positions'[a] = 0]_vars
C16_Witness ==
    /\ cpc = "encode"
    /\ axis = 3
    /\ last_positions[1] = -1000 * 1350
    /\ last_positions[2] = 25 * 15000
    /\ last_positions[3] = 0
    /\ Len(output) = 2

\* C17: the inversion flag has no effect: the line a step writes for an axis
\* is the line made of what convert_to_can_message returns with the flag
\* TRUE and also with the flag FALSE, sign of the displacement included, and
\* the update of last_positions is the same for both.
C17_InvertDirectionHasNoEffect ==
    [][(cpc = "encode" /\ cpc' # "failed") =>
          \A flag \in BOOLEAN :
              /\ output' = Append(output,
                                  CanLine(axis, speed, values(input[Len(input)])[axis + 1],
                                          initial_positions[axis], flag))
              /\ last_positions'[axis]
                    = values(input[Len(input)])[axis + 1] * gear_ratios[axis]]_vars
C17_Witness ==
    /\ Len(output) = 3
    /\ invert_direction[AxisOf(1)] /\ ~invert_direction[AxisOf(3)]
    /\ SignedDecode(DisplacementField(output[1])) = 13500
    /\ SignedDecode(DisplacementField(output[3])) = 150000

\* The converter has returned, and the motion commands all of whose targets
\* are finite.
Stopped == cpc \in {"done", "failed"}
FiniteMotion(line) ==
    /\ StartsWithG90(line)
    /\ Len(values(line)) >= 7
    /\ \A a \in Axes : values(line)[a + 1] # Infinity

\* The feed rate carried forward to line n of the .gcode file.
RECURSIVE FileFeed(_)
FileFeed(n) ==
    IF n = 0 THEN 0
    ELSE IF speed_match(file[n]) # None THEN speed_match(file[n])[1]
    ELSE FileFeed(n - 1)

\* C19: the packet of a motion command does not depend on the targets of the
\* motion commands before it: when the converter has returned, the .can
\* file holds for every motion command of the .gcode file the six lines a
\* converter that has converted nothing yet writes for its targets at the
\* feed rate carried forward to it.
C19_PacketIndependentOfHistory ==
    Stopped =>
        \A n \in 1..Len(file) : FiniteMotion(file[n]) =>
            \E first \in 1..Len(output) : \A a \in Axes :
                /\ first + a - 1 <= Len(output)
                /\ src[first + a - 1] = n
                /\ output[first + a - 1]
                      = CanLine(a, FileFeed(n), values(file[n])[a + 1], 0,
                                invert_direction[a])

\* C20: whenever the converter is between two input lines or has returned,
\* the number of lines written is a multiple of 6, and the message sets
\* send.py cuts the file into are the packets of the motion commands, one
\* set per command in the order of the command lines, the k-th message of
\* each set being parsed with arbitration id k.
C20_PacketsAlignedWithSets ==
    cpc # "encode" =>
        /\ Len(output) % SetSize = 0
        /\ \A p \in 1..NumSets(Len(output)) :
              /\ Len(MessageSet(output, p)) = SetSize
              /\ \A j \in 1..Len(MessageSet(output, p)) :
                    /\ ParsedSet(output, p)[j].arbitration_id = j
                    /\ src[(p - 1) * SetSize + j] = src[(p - 1) * SetSize + 1]
              /\ p > 1 => src[(p - 1) * SetSize] < src[(p - 1) * SetSize + 1]

(***************************************************************************)
(* Claims about the displacement digits, checked under EncSpec.            *)
(***************************************************************************)
\* C12: the displacement digits are rel_position mod 2^24, most significant
\* digit first; read as a signed 24-bit integer they give rel_position back
\* when it lies in -2^23 .. 2^23 - 1; outside this range they are the digits
\* of rel_position - 2^24 (above it) or rel_position + 2^24 (below it).
C12_DisplacementIsMod24 ==
    position_hex # <<>> =>
        /\ Len(position_hex) = 6
        /\ HexValue(position_hex) = rel_position % (2^24)
        /\ rel_position \in -(2^23)..(2^23 - 1) => SignedDecode(position_hex) = rel_position
        /\ rel_position >= 2^23 => position_hex = PositionHex(rel_position - 2^24)
        /\ rel_position < -(2^23) => position_hex = PositionHex(rel_position + 2^24)
C12_Witness ==
    /\ rel_position = 2^23
    /\ position_hex = <<8, 0, 0, 0, 0, 0>>

====
